---- MODULE Spec2Model ----
(***************************************************************************)
(* Model of Menu_Optimization.py: the 0/1 integer program optimize_menu    *)
(* builds for one restaurant, the solve it delegates to PuLP's default     *)
(* solver, the extraction of the selected items and the branch of main     *)
(* that displays the result.                                               *)
(*                                                                         *)
(* Money is modelled in integers.  The solver is modelled by its contract: *)
(* on a problem with a feasible 0/1 assignment it ends "Optimal" with an   *)
(* assignment maximising the objective; on a problem with none it ends     *)
(* "Infeasible" and leaves values in the variables about which nothing is  *)
(* promised (optimize_menu never reads prob.status).  The values left are  *)
(* exactly 0 or 1, so that the test pulp.value(...) == 1 is exact.         *)
(* SpecFail adds the solver ending neither "Optimal" nor "Infeasible".     *)
(* The tables of Init are those drop_duplicates leaves: no two rows share  *)
(* (RestaurantID, MenuItem).                                               *)
(***************************************************************************)
EXTENDS Integers, Sequences, FiniteSets, TLC

\* ------------------------------------------------------------------ bounds

\* Largest number of rows of an item table.
MaxRows == 2

\* ------------------------------------------------------------ input values

\* A missing MenuCategory cell: pandas reads it as the float NaN.
NaN == "NaN"

RestaurantIDs == {1, 2}

MenuItems == {1, 2}

\* An ordinary label, the blank label and the missing label.
MenuCategories == {"Entree", "", NaN}

Prices == {10, 20}

Profitabilities == {"Medium", "High"}

\* Budgets handed to optimize_menu (main's slider hands 50..300).
Budgets == {-10, 5, 25, 35}

\* The minimums per category a caller may want; optimize_menu(df,
\* restaurant_id, max_budget) has no parameter to receive one.
MinItemsRequests == {1, 2}

\* profit_weights = {'Low': 2, 'Medium': 3, 'High': 4}
profit_weights == [p \in {"Low", "Medium", "High"} |->
                     IF p = "Low" THEN 2 ELSE IF p = "Medium" THEN 3 ELSE 4]

\* min_items_per_category = 1
min_items_per_category == 1

\* ------------------------------------------------------------- item table

\* A row of maindata.xlsx.
RawRows == [RestaurantID : RestaurantIDs, MenuItem : MenuItems,
            MenuCategory : MenuCategories, Price : Prices,
            Profitability : Profitabilities]

\* Row a comes before row b in the key (RestaurantID, MenuItem).
KeyBefore(a, b) ==
    \/ a.RestaurantID < b.RestaurantID
    \/ a.RestaurantID = b.RestaurantID /\ a.MenuItem < b.MenuItem

\* load_and_preprocess_data: the tables left by
\* drop_duplicates(subset=['RestaurantID', 'MenuItem']), no two rows sharing
\* the key; rows are listed in key order.
load_and_preprocess_data ==
    UNION { { t \in [1..n -> RawRows] :
                \A i \in 1..n : \A j \in 1..n : i < j => KeyBefore(t[i], t[j]) }
            : n \in 0..MaxRows }

\* calculate_selling_price: SellingPrice = Price * profit_weights[Profitability].
calculate_selling_price(t) ==
    [i \in DOMAIN t |->
        [RestaurantID |-> t[i].RestaurantID, MenuItem |-> t[i].MenuItem,
         MenuCategory |-> t[i].MenuCategory, Price |-> t[i].Price,
         Profitability |-> t[i].Profitability,
         SellingPrice |-> t[i].Price * profit_weights[t[i].Profitability]]]

\* ------------------------------------------------------ linear expressions

\* Python's == on two category labels: NaN equals nothing, itself included.
PyEq(a, b) == a # NaN /\ b # NaN /\ a = b

RECURSIVE SumCoef(_, _)
\* The coefficient variable v collects over a list of <<variable, coef>> terms.
SumCoef(terms, v) ==
    IF terms = <<>> THEN 0
    ELSE (IF Head(terms)[1] = v THEN Head(terms)[2] ELSE 0)
         + SumCoef(Tail(terms), v)

\* pulp.lpSum of a list of variable * coefficient terms: variable -> coef.
lpSum(terms) ==
    [v \in {terms[i][1] : i \in DOMAIN terms} |-> SumCoef(terms, v)]

RECURSIVE SumOver(_, _, _)
\* Sum of expr[v] * val[v] over the variables in S.
SumOver(S, expr, val) ==
    IF S = {} THEN 0
    ELSE LET v == CHOOSE x \in S : TRUE
         IN  expr[v] * val[v] + SumOver(S \ {v}, expr, val)

\* pulp.value of a linear expression under the variables' values.
Value(expr, val) == SumOver(DOMAIN expr, expr, val)

\* ---------------------------------------------------------- optimize_menu

\* Mutant of FilterRestaurant: the filter left out.
FilterRestaurant_Unfiltered(t, rid) == t

\* restaurant_df = df[df['RestaurantID'] == restaurant_id]
FilterRestaurant(t, rid) ==
    SelectSeq(t, LAMBDA row : row.RestaurantID = rid)

\* menu_vars: one binary variable per MenuItem of the filtered rows.
MenuVars(rdf) == {rdf[i].MenuItem : i \in DOMAIN rdf}

\* Mutant of Objective: the coefficients taken from Price.
Objective_OfPrice(rdf) ==
    lpSum([i \in DOMAIN rdf |-> <<rdf[i].MenuItem, rdf[i].Price>>])

\* Objective: lpSum of menu_vars[row.MenuItem] * row.SellingPrice.
Objective(rdf) ==
    lpSum([i \in DOMAIN rdf |-> <<rdf[i].MenuItem, rdf[i].SellingPrice>>])

\* Mutant of BudgetConstraint: the factor row.Price left out, so that the
\* number of items is capped.
BudgetConstraint_OfCount(rdf, budget) ==
    [expr |-> lpSum([i \in DOMAIN rdf |-> <<rdf[i].MenuItem, 1>>]),
     sense |-> "<=", rhs |-> budget, category |-> "budget"]

\* Constraint 1: lpSum of menu_vars[row.MenuItem] * row.Price <= max_budget.
BudgetConstraint(rdf, budget) ==
    [expr |-> lpSum([i \in DOMAIN rdf |-> <<rdf[i].MenuItem, rdf[i].Price>>]),
     sense |-> "<=", rhs |-> budget, category |-> "budget"]

RECURSIVE Unique(_)
\* restaurant_df['MenuCategory'].unique(): the labels in order of first
\* appearance; pandas keeps one NaN for all missing cells.
Unique(labels) ==
    IF labels = <<>> THEN <<>>
    ELSE LET rest == Unique(SelectSeq(Tail(labels),
                                      LAMBDA c : c # Head(labels)))
         IN  <<Head(labels)>> \o rest

\* The labels of the filtered rows.
CategoryLabels(rdf) == Unique([i \in DOMAIN rdf |-> rdf[i].MenuCategory])

\* Mutant of CategoryConstraint: the sense turned round.
CategoryConstraint_AtMost(rdf, category) ==
    LET rows == SelectSeq(rdf, LAMBDA row : PyEq(row.MenuCategory, category))
    IN  [expr |-> lpSum([i \in DOMAIN rows |-> <<rows[i].MenuItem, 1>>]),
         sense |-> "<=", rhs |-> 1, category |-> category]

\* One constraint of the loop of Constraint 2: the rows kept are those with
\* row.MenuCategory == category.
CategoryConstraint(rdf, category) ==
    LET rows == SelectSeq(rdf, LAMBDA row : PyEq(row.MenuCategory, category))
    IN  [expr |-> lpSum([i \in DOMAIN rows |-> <<rows[i].MenuItem, 1>>]),
         sense |-> ">=", rhs |-> min_items_per_category,
         category |-> category]

\* Constraint 2: one constraint per label of unique().
CategoryConstraints(rdf) ==
    LET cats == CategoryLabels(rdf)
    IN  [k \in DOMAIN cats |-> CategoryConstraint(rdf, cats[k])]

\* The LpProblem after the build: variables, objective, constraints.
BuildProblem(rdf, budget) ==
    [vars |-> MenuVars(rdf),
     objective |-> Objective(rdf),
     constraints |-> <<BudgetConstraint(rdf, budget)>>
                     \o CategoryConstraints(rdf)]

\* ------------------------------------------------------------- the solver

\* A constraint holds under an assignment (a variable outside the
\* expression has coefficient 0).
Satisfies(c, val) ==
    IF c.sense = "<=" THEN Value(c.expr, val) <= c.rhs
    ELSE Value(c.expr, val) >= c.rhs

\* The 0/1 assignments of the problem's variables.
Assignments(p) == [p.vars -> {0, 1}]

\* The assignments satisfying every constraint.
FeasibleAssignments(p) ==
    {val \in Assignments(p) :
        \A k \in DOMAIN p.constraints : Satisfies(p.constraints[k], val)}

\* The feasible assignments of greatest objective.
OptimalAssignments(p) ==
    LET F == FeasibleAssignments(p)
    IN  {x \in F : \A y \in F : Value(p.objective, y) <= Value(p.objective, x)}

\* What prob.solve() can leave behind: the status and the variables' values.
SolveOutcomes(p) ==
    IF FeasibleAssignments(p) # {}
    THEN {[status |-> "Optimal", varValue |-> x] : x \in OptimalAssignments(p)}
    ELSE {[status |-> "Infeasible", varValue |-> x] : x \in Assignments(p)}

\* A solve that ends neither optimal nor proven infeasible.
AbnormalOutcomes(p) ==
    {[status |-> s, varValue |-> x] :
        s \in {"Not Solved", "Undefined"}, x \in Assignments(p)}

\* ------------------------------------------------------------ extraction

\* selected_items: the rows whose variable has value 1, as the dicts built.
SelectedItems(rdf, val) ==
    LET rows == SelectSeq(rdf, LAMBDA row : val[row.MenuItem] = 1)
    IN  [i \in DOMAIN rows |->
            [MenuItem |-> rows[i].MenuItem, Category |-> rows[i].MenuCategory,
             Price |-> rows[i].Price, Profitability |-> rows[i].Profitability,
             SellingPrice |-> rows[i].SellingPrice]]

\* The pair optimize_menu returns.
ReturnValue(rdf, p, val) ==
    [selected_items |-> SelectedItems(rdf, val),
     objective |-> Value(p.objective, val)]

\* Every (status, returned pair) one call can end with.
Results(t, rid, budget) ==
    LET rdf == FilterRestaurant(t, rid)
        p == BuildProblem(rdf, budget)
    IN  {[status |-> o.status, ret |-> ReturnValue(rdf, p, o.varValue)] :
            o \in SolveOutcomes(p)}

\* ------------------------------------------------------------------ state

VARIABLES
    df,                  \* the item table, SellingPrice added
    restaurant_id,       \* argument of optimize_menu
    max_budget,          \* argument of optimize_menu
    pc,                  \* "call", "built", "solved", "returned", "displayed"
    restaurant_df,       \* the filtered rows
    prob,                \* the LpProblem
    status,              \* prob.status after the solve
    varValue,            \* the variables' values after the solve
    selected_items,      \* first component returned
    total_profit,        \* second component returned: {} before, {value} after
    shown                \* what main displays

vars == <<df, restaurant_id, max_budget, pc, restaurant_df, prob, status,
          varValue, selected_items, total_profit, shown>>

NoProblem == [vars |-> {}, objective |-> <<>>, constraints |-> <<>>]

Init ==
    /\ df \in {calculate_selling_price(t) : t \in load_and_preprocess_data}
    /\ restaurant_id \in RestaurantIDs
    /\ max_budget \in Budgets
    /\ pc = "call"
    /\ restaurant_df = <<>>
    /\ prob = NoProblem
    /\ status = "Not Solved"
    /\ varValue = <<>>
    /\ selected_items = <<>>
    /\ total_profit = {}
    /\ shown = "nothing"

\* optimize_menu up to the solve: filter, variables, objective, constraints.
Build ==
    /\ pc = "call"
    /\ restaurant_df' = FilterRestaurant(df, restaurant_id)
    /\ prob' = BuildProblem(restaurant_df', max_budget)
    /\ pc' = "built"
    /\ UNCHANGED <<df, restaurant_id, max_budget, status, varValue,
                   selected_items, total_profit, shown>>

\* prob.solve()
Solve ==
    /\ pc = "built"
    /\ \E o \in SolveOutcomes(prob) :
          /\ status' = o.status
          /\ varValue' = o.varValue
    /\ pc' = "solved"
    /\ UNCHANGED <<df, restaurant_id, max_budget, restaurant_df, prob,
                   selected_items, total_profit, shown>>

\* prob.solve() ending abnormally without raising.
SolveAbnormally ==
    /\ pc = "built"
    /\ \E o \in AbnormalOutcomes(prob) :
          /\ status' = o.status
          /\ varValue' = o.varValue
    /\ pc' = "solved"
    /\ UNCHANGED <<df, restaurant_id, max_budget, restaurant_df, prob,
                   selected_items, total_profit, shown>>

\* The extraction loop and the return.
Extract ==
    /\ pc = "solved"
    /\ LET r == ReturnValue(restaurant_df, prob, varValue)
       IN  /\ selected_items' = r.selected_items
           /\ total_profit' = {r.objective}
    /\ pc' = "returned"
    /\ UNCHANGED <<df, restaurant_id, max_budget, restaurant_df, prob,
                   status, varValue, shown>>

\* main: the selection when selected_items is non-empty, else st.error.
Display ==
    /\ pc = "returned"
    /\ shown' = IF selected_items # <<>> THEN "selection" ELSE "no feasible solution"
    /\ pc' = "displayed"
    /\ UNCHANGED <<df, restaurant_id, max_budget, restaurant_df, prob,
                   status, varValue, selected_items, total_profit>>

Next == Build \/ Solve \/ Extract \/ Display

Spec == Init /\ [][Next]_vars

NextFail == Build \/ Solve \/ SolveAbnormally \/ Extract \/ Display

SpecFail == Init /\ [][NextFail]_vars

\* ------------------------------------------------- the claims' vocabulary

\* The rows of the table that belong to the requested restaurant.
Mine == {i \in DOMAIN df : df[i].RestaurantID = restaurant_id}

RECURSIVE PriceOf(_)
\* Sum of Price over a set of rows of the table.
PriceOf(S) ==
    IF S = {} THEN 0
    ELSE LET i == CHOOSE x \in S : TRUE IN df[i].Price + PriceOf(S \ {i})

RECURSIVE SellingOf(_)
\* Sum of SellingPrice over a set of rows of the table.
SellingOf(S) ==
    IF S = {} THEN 0
    ELSE LET i == CHOOSE x \in S : TRUE
         IN  df[i].SellingPrice + SellingOf(S \ {i})

\* A subset of the restaurant's rows within the budget and holding, for
\* every label carried by a row of the restaurant (the missing label is a
\* label like any other), at least n rows with that label.
FeasibleSubset(S, n) ==
    /\ PriceOf(S) <= max_budget
    /\ \A i \in Mine :
          Cardinality({j \in S : df[j].MenuCategory = df[i].MenuCategory}) >= n

FeasibleSubsets == {S \in SUBSET Mine : FeasibleSubset(S, 1)}

RECURSIVE SumPrice(_)
\* Sum of 'Price' over a list of selected-item dicts.
SumPrice(items) ==
    IF items = <<>> THEN 0 ELSE Head(items).Price + SumPrice(Tail(items))

RECURSIVE SumSellingPrice(_)
\* Sum of 'SellingPrice' over a list of selected-item dicts.
SumSellingPrice(items) ==
    IF items = <<>> THEN 0
    ELSE Head(items).SellingPrice + SumSellingPrice(Tail(items))

\* optimize_menu has returned.
Returned == pc \in {"returned", "displayed"}

\* The call ended on a problem the solver found a solution of.
FeasibleResult == Returned /\ status = "Optimal"

\* The number of selected items carrying label c.
SelectedIn(c) ==
    Cardinality({k \in DOMAIN selected_items : selected_items[k].Category = c})

\* ----------------------------------------------------------------- claims

\* C1: whenever some subset of the restaurant's items satisfies the budget
\* cap and the per-category minimum, the objective value returned is the
\* maximum of the sum of SellingPrice over all such subsets.
C1_Optimality ==
    (Returned /\ FeasibleSubsets # {}) =>
        /\ \E S \in FeasibleSubsets : total_profit = {SellingOf(S)}
        /\ \A S \in FeasibleSubsets : \A v \in total_profit : SellingOf(S) <= v

\* C2: in every feasible result the sum of Price (not SellingPrice) over the
\* selected items is at most max_budget.
C2_BudgetRespected ==
    FeasibleResult => SumPrice(selected_items) <= max_budget

\* C2 witness: a feasible result that leaves out an item the budget cannot
\* also pay for.
C2_Witness ==
    /\ FeasibleResult
    /\ selected_items # <<>>
    /\ \E i \in Mine :
          /\ \A k \in DOMAIN selected_items :
                selected_items[k].MenuItem # df[i].MenuItem
          /\ SumPrice(selected_items) + df[i].Price > max_budget

\* C3 as stated: the minimum is the caller's: whatever minimum n the caller
\* wants, in every feasible result each category present among the
\* restaurant's items has at least n selected items.
C3_RequestedMinimum ==
    \A n \in MinItemsRequests :
        FeasibleResult =>
            \A i \in Mine : SelectedIn(df[i].MenuCategory) >= n

\* C3 as amended: in every feasible result each category present among the
\* restaurant's items has at least min_items_per_category (the fixed 1)
\* selected items.
C3_CategoryMinimum ==
    FeasibleResult =>
        \A i \in Mine : SelectedIn(df[i].MenuCategory) >= min_items_per_category

\* C3 witness: a feasible result over two categories, exactly one item of
\* each selected.
C3_Witness ==
    /\ FeasibleResult
    /\ Len(selected_items) = 2
    /\ selected_items[1].Category # selected_items[2].Category

\* C4: when no subset of the restaurant's items satisfies the budget cap and
\* every category's minimum, the selected-item list returned is empty, no
\* objective value is reported and main never displays a selection.
C4_InfeasibleSignal ==
    (FeasibleSubsets = {} /\ Mine # {} /\ max_budget >= 0) =>
        /\ Returned => (selected_items = <<>> /\ total_profit = {})
        /\ shown # "selection"

\* C5: in every feasible result the objective value returned is the sum of
\* SellingPrice over the selected items returned.
C5_ObjectiveCorrect ==
    FeasibleResult => total_profit = {SumSellingPrice(selected_items)}

\* C5 witness: the two items of prices 10 and 20 selected under budget 35,
\* objective 40 + 60 = 100.
C5_Witness ==
    /\ FeasibleResult
    /\ max_budget = 35
    /\ Len(selected_items) = 2
    /\ total_profit = {100}

\* The rows of another restaurant that a table could hold.
ForeignRows ==
    {r \in {calculate_selling_price(<<raw>>)[1] : raw \in RawRows} :
        r.RestaurantID # restaurant_id}

\* The table without its row i.
WithoutRow(t, i) == SubSeq(t, 1, i - 1) \o SubSeq(t, i + 1, Len(t))

\* The tables that differ from df in one row of another restaurant: the row
\* removed, or the row changed (its key kept).  A row added is the removal
\* seen from the larger table, which is a table of Init as well.
ForeignChanges ==
    LET foreign == DOMAIN df \ Mine
    IN  {WithoutRow(df, i) : i \in foreign}
        \cup UNION {{[df EXCEPT ![i] = r] :
                        r \in {x \in ForeignRows : x.MenuItem = df[i].MenuItem}}
                     : i \in foreign}

\* C6: every selected item is an item of the requested restaurant, and
\* removing, changing or adding an item of another restaurant leaves the
\* possible results (status, selected items, objective value) the same.
C6_RestaurantIsolation ==
    /\ pc = "returned" =>
          /\ \A k \in DOMAIN selected_items : \E i \in Mine :
                /\ df[i].MenuItem = selected_items[k].MenuItem
                /\ df[i].MenuCategory = selected_items[k].Category
                /\ df[i].Price = selected_items[k].Price
                /\ df[i].SellingPrice = selected_items[k].SellingPrice
          /\ Len(selected_items) <= Cardinality(Mine)
          /\ [status |-> status,
              ret |-> [selected_items |-> selected_items,
                       objective |-> CHOOSE v \in total_profit : TRUE]]
                \in Results(df, restaurant_id, max_budget)
    /\ pc = "built" =>
          LET here == Results(df, restaurant_id, max_budget)
          IN  \A t \in ForeignChanges :
                  Results(t, restaurant_id, max_budget) = here

\* C6 witness: a result that selects an item of the requested restaurant
\* while another restaurant holds an item of the same identifier whose
\* price alone would break the budget.
C6_Witness ==
    /\ FeasibleResult
    /\ selected_items # <<>>
    /\ \E i \in DOMAIN df \ Mine :
          /\ \E k \in DOMAIN selected_items :
                selected_items[k].MenuItem = df[i].MenuItem
          /\ SumPrice(selected_items) + df[i].Price > max_budget

\* C7: when no row of the table has the requested restaurant_id, the call
\* returns without building or solving a problem, and what it returns is
\* infeasible and carries no objective value.
C7_EmptyReturnsImmediately ==
    Mine = {} =>
        /\ pc \notin {"built", "solved"}
        /\ Returned => (status # "Optimal" /\ total_profit = {})

\* C8: a request with a negative budget or a restaurant_id no row carries
\* never gets past the entry of optimize_menu: no problem is built and the
\* solver is not invoked.
C8_InvalidRequestFailsFast ==
    (max_budget < 0 \/ Mine = {}) => pc = "call"

\* C9: when the solver ends neither optimal nor proven infeasible,
\* optimize_menu does not return a (selected items, objective) pair as it
\* does for an optimal or an infeasible solve.
C9_SolverFailureSurfaced ==
    status \in {"Not Solved", "Undefined"} => ~Returned

\* C10: every label carried by a row of the restaurant, the blank and the
\* missing label included, gets a minimum-count constraint that sums over
\* exactly the rows carrying it, and a feasible subset existing, the rows
\* returned hold at least one of each such label.
C10_BlankCategoryConstrained ==
    /\ pc # "call" =>
          \A i \in Mine : \E k \in DOMAIN prob.constraints :
              /\ prob.constraints[k].sense = ">="
              /\ DOMAIN prob.constraints[k].expr
                    = {df[j].MenuItem :
                         j \in {x \in Mine :
                                  df[x].MenuCategory = df[i].MenuCategory}}
    /\ (Returned /\ FeasibleSubsets # {}) =>
          \A i \in Mine :
              df[i].MenuCategory \in {"", NaN} =>
                  SelectedIn(df[i].MenuCategory) >= min_items_per_category

====
